---- MODULE Spec2Model ----
(***************************************************************************)
(* Model of scripts/update_docs.py: a straight-line script that rewrites   *)
(* three documents with regular-expression edits.                          *)
(*                                                                         *)
(* A document is a sequence of tokens.  Every token is a literal piece of  *)
(* text ("\n", " ", "##", "## Last Verified", "Commit:", ...), chosen so   *)
(* that each literal of the script's patterns is a whole number of tokens  *)
(* and no pattern can match from inside a token.  The matchers below walk  *)
(* the tokens in the order Python's backtracking matcher tries them.       *)
(* A position is a token index from 1.  The spans the script stores in     *)
(* `matches` are character offsets as re.Match.start()/end() give them: a  *)
(* token is as wide as its text, and a cut at an offset inside a token     *)
(* leaves the piece of the token's text on the kept side.                  *)
(***************************************************************************)
EXTENDS Integers, Sequences, FiniteSets, TLC

VARIABLES
    exists,     \* file name -> whether the file exists on disk
    content,    \* file name -> text of the file on disk
    pc,         \* the statement the script is about to execute
    run,        \* which invocation of the script is executing (1, 2, ...)
    state,      \* the script's variable `state`
    findings,   \* the script's variable `findings`
    handoff,    \* the script's variable `handoff`
    matches,    \* the script's variable `matches`: sequence of spans
    prev,       \* history: the text the last executed edit was applied to
    written,    \* history: the files written by the current invocation
    atStart     \* history: the files as they were when this invocation began

vars == <<exists, content, pc, run, state, findings, handoff, matches,
          prev, written, atStart>>

\* ------------------------------------------------------------------ files
STATE_FILE == "docs/STATE_OF_THE_APP.md"
FINDINGS_FILE == "docs/FINDINGS_LOG.md"
HANDOFF_FILE == "docs/HANDOFF_PACKET_LATEST.txt"
INVARIANTS_FILE == "docs/INVARIANTS.md"
Files == {STATE_FILE, FINDINGS_FILE, HANDOFF_FILE, INVARIANTS_FILE}

COMMIT_HASH == "ef1b93c"
VERIFY_DATE == "2026-01-24"

\* ----------------------------------------------------------------- tokens
NL == "\n"
SP == " "
HH == "##"
LV == "## Last Verified"
ReportLine == "- 2026-01-24: Typecheck PASS, scripts/ai/verify_frontend.sh PASS"
GitLine == "- Git: Pushed to main @ ef1b93c"
Deployed == "deployed"
Pushed == "pushed"

IsWs(c) == c \in {SP, NL}

\* ------------------------------------------------------- bounds of the model
MaxStateChunks == 4    \* chunks in an enumerated STATE_OF_THE_APP text
MaxHandoffLen == 4     \* tokens in an enumerated HANDOFF_PACKET text
MaxChunks == 4         \* chunks in an enumerated FINDINGS_LOG text
MaxRuns == 2           \* invocations of the script

\* ---------------------------------------------------------- text helpers
Slice(t, a, b) == IF a > b THEN <<>> ELSE SubSeq(t, a, b)
From(t, a) == Slice(t, a, Len(t))

\* the character offset of position i: the length of the text before it
RECURSIVE OffsetOf(_, _)
OffsetOf(t, i) == IF i <= 1 THEN 0 ELSE OffsetOf(t, i - 1) + Len(t[i - 1])

\* txt[:n] for a character offset n
RECURSIVE TakeChars(_, _)
TakeChars(t, n) ==
    IF n <= 0 \/ t = <<>> THEN <<>>
    ELSE IF Len(t[1]) <= n THEN <<t[1]>> \o TakeChars(Tail(t), n - Len(t[1]))
    ELSE <<SubSeq(t[1], 1, n)>>

\* txt[n:] for a character offset n
RECURSIVE DropChars(_, _)
DropChars(t, n) ==
    IF t = <<>> THEN <<>>
    ELSE IF n <= 0 THEN t
    ELSE IF Len(t[1]) <= n THEN DropChars(Tail(t), n - Len(t[1]))
    ELSE <<SubSeq(t[1], n + 1, Len(t[1]))>> \o Tail(t)

\* str.rstrip(): drop the trailing whitespace
RECURSIVE RStrip(_)
RStrip(t) ==
    IF t # <<>> /\ IsWs(t[Len(t)]) THEN RStrip(Slice(t, 1, Len(t) - 1)) ELSE t

\* the first position >= j that holds no whitespace (greedy \s*)
RECURSIVE SkipWs(_, _)
SkipWs(t, j) == IF j <= Len(t) /\ IsWs(t[j]) THEN SkipWs(t, j + 1) ELSE j

\* (?m)^ : at the start of the text or right after a newline
AtLineStart(t, i) == i = 1 \/ t[i - 1] = NL

\* the position after the first newline at or after q; 0 when there is none
RECURSIVE LineEnd(_, _)
LineEnd(t, q) ==
    IF q > Len(t) THEN 0 ELSE IF t[q] = NL THEN q + 1 ELSE LineEnd(t, q + 1)

\* the position of the end of the line that holds q ((?m)$ after a greedy .*)
RECURSIVE EndOfLine(_, _)
EndOfLine(t, q) ==
    IF q > Len(t) \/ t[q] = NL THEN q ELSE EndOfLine(t, q + 1)

\* whether the tokens of lit stand in t at position q
LitAt(t, q, lit) ==
    /\ q >= 1
    /\ q + Len(lit) - 1 <= Len(t)
    /\ \A k \in 1..Len(lit) : t[q + k - 1] = lit[k]

\* ------------------------------------------------ upsert_last_verified
\* the f-string block of upsert_last_verified
Block == <<LV, NL, ReportLine, NL, GitLine, NL>>

\* (?=\n## |\Z)
HeaderAhead(t, q) ==
    \/ q = Len(t) + 1
    \/ LitAt(t, q, <<NL, HH, SP>>)
    \/ LitAt(t, q, <<NL, LV>>)

\* (?:.*\n)*?(?=\n## |\Z) from q: the fewest whole lines after which the
\* lookahead holds; 0 when it never does
RECURSIVE LazyLines(_, _)
LazyLines(t, q) ==
    IF HeaderAhead(t, q) THEN q
    ELSE IF LineEnd(t, q) = 0 THEN 0
    ELSE LazyLines(t, LineEnd(t, q))

\* \s*\n(?:.*\n)*?(?=...) with the header's whitespace starting at j: the
\* greedy \s* gives back one character at a time, m is the position tried
\* for \n
RECURSIVE SectionEnd(_, _, _)
SectionEnd(t, j, m) ==
    IF m < j THEN 0
    ELSE IF t[m] = NL /\ LazyLines(t, m + 1) # 0 THEN LazyLines(t, m + 1)
    ELSE SectionEnd(t, j, m - 1)

\* the end of the match of the Last Verified pattern that starts at i, or 0
MatchLV(t, i) ==
    IF i <= Len(t) /\ t[i] = LV /\ AtLineStart(t, i)
    THEN SectionEnd(t, i + 1, SkipWs(t, i + 1) - 1)
    ELSE 0

\* re.search(pattern, txt)
SearchLV(t) == \E i \in 1..Len(t) : MatchLV(t, i) # 0

\* the spans re.finditer would report from position i on
RECURSIVE SpansLV(_, _)
SpansLV(t, i) ==
    IF i > Len(t) THEN <<>>
    ELSE IF MatchLV(t, i) # 0
         THEN <<(<<i, MatchLV(t, i)>>)>> \o SpansLV(t, MatchLV(t, i))
         ELSE SpansLV(t, i + 1)

\* re.sub(pattern, block + "\n", txt) from position i on, replacing count
\* matches at most (count < 0: all of them)
RECURSIVE SubLVFrom(_, _, _)
SubLVFrom(t, i, count) ==
    IF i > Len(t) THEN <<>>
    ELSE IF count # 0 /\ MatchLV(t, i) # 0
         THEN Block \o <<NL>> \o SubLVFrom(t, MatchLV(t, i), count - 1)
         ELSE <<t[i]>> \o SubLVFrom(t, i + 1, count)

SubLVFirstOnly(t) == SubLVFrom(t, 1, 1)
SubLV(t) == SubLVFrom(t, 1, -1)

\* lines 19-30
upsert_last_verified(txt) ==
    IF SearchLV(txt) THEN SubLV(txt)
    ELSE RStrip(txt) \o <<NL, NL>> \o Block \o <<NL>>

\* state.replace("deployed", "pushed")
ReplaceDeployed(t) == [k \in 1..Len(t) |-> IF t[k] = Deployed THEN Pushed ELSE t[k]]

\* ------------------------------------------------ HANDOFF_PACKET edits
CommitKey == "Commit:"
PushKey == "Push:"
InvKey == "INVARIANTS changed:"
PushValue == "YES (main -> main)"
Stale == "abc123"

\* (?m)^<key>\s*.*$ : the end of the match that starts at i, or 0.  The
\* greedy \s* runs over newlines too; .* then takes the rest of the line
\* it stopped on
MatchField(t, i, key) ==
    IF i <= Len(t) /\ t[i] = key /\ AtLineStart(t, i)
    THEN EndOfLine(t, SkipWs(t, i + 1))
    ELSE 0

\* re.sub(r"(?m)^<key>\s*.*$", repl, t) from position i on
RECURSIVE SubFieldFrom(_, _, _, _)
SubFieldFrom(t, i, key, repl) ==
    IF i > Len(t) THEN <<>>
    ELSE IF MatchField(t, i, key) # 0
         THEN repl \o SubFieldFrom(t, MatchField(t, i, key), key, repl)
         ELSE <<t[i]>> \o SubFieldFrom(t, i + 1, key, repl)

PatchCommit(t) == SubFieldFrom(t, 1, CommitKey, <<CommitKey, SP, COMMIT_HASH>>)
PatchPush(t) == SubFieldFrom(t, 1, PushKey, <<PushKey, SP, PushValue>>)

\* (?m)^INVARIANTS changed:.*\n : the end of the match that starts at i, or 0
MatchInvLine(t, i) ==
    IF i <= Len(t) /\ t[i] = InvKey /\ AtLineStart(t, i)
    THEN LineEnd(t, i + 1)
    ELSE 0

\* re.sub(r"(?m)^INVARIANTS changed:.*\n", "", t) from position i on,
\* replacing count matches at most (count < 0: all of them)
RECURSIVE DeleteInvFrom(_, _, _)
DeleteInvFrom(t, i, count) ==
    IF i > Len(t) THEN <<>>
    ELSE IF count # 0 /\ MatchInvLine(t, i) # 0
         THEN DeleteInvFrom(t, MatchInvLine(t, i), count - 1)
         ELSE <<t[i]>> \o DeleteInvFrom(t, i + 1, count)

DeleteInvFirstOnly(t) == DeleteInvFrom(t, 1, 1)
DeleteInvLines(t) == DeleteInvFrom(t, 1, -1)

\* ------------------------------------------------- FINDINGS_LOG edits
\* (a string of this module cannot hold a backquote: the tokens below write
\* the script's backquotes as apostrophes)
Hash == "#"
DateKey == "Date:"
FindingKey == "Finding:"
CookieSilently == "React Native fetch silently drops uppercase 'Cookie' header"
CookieBacktick == "React Native fetch drops uppercase 'Cookie' headers"
Dashes == "---"
TemplateWord == "Template"
AuthTitle == "Auth Contract (Canonical)"
AuthLine1 == "- Authenticated API calls must use the Better Auth session cookie: '__Secure-better-auth.session_token'."
AuthLine2 == "- In React Native/Expo, the cookie header must be sent as lowercase 'cookie' (uppercase 'Cookie' can be dropped)."
AuthLine3 == "- Authed React Query calls must be gated on 'bootStatus === 'authed'' (not '!!session') to prevent 401 storms during transitions."
Text == "x"

H2 == <<Hash, Hash>>
H3 == <<Hash, Hash, Hash>>
AuthHeader == H2 \o <<SP, AuthTitle>>
auth_contract ==
    AuthHeader \o <<NL, NL, AuthLine1, NL, AuthLine2, NL, AuthLine3, NL, NL>>

\* str.strip()
RECURSIVE LStrip(_)
LStrip(t) == IF t # <<>> /\ IsWs(t[1]) THEN LStrip(From(t, 2)) ELSE t
Strip(t) == LStrip(RStrip(t))

\* "## Auth Contract (Canonical)" in findings
HasAuthContract(t) == \E q \in 1..Len(t) : LitAt(t, q, AuthHeader)

\* lines 55-63: the contract goes in after the first line
InsertAuth(t) ==
    IF HasAuthContract(t) THEN t
    ELSE IF t = <<>> THEN auth_contract
    ELSE LET cut == IF LineEnd(t, 1) = 0 THEN Len(t) + 1 ELSE LineEnd(t, 1)
         IN Slice(t, 1, cut - 1) \o <<NL>> \o auth_contract \o From(t, cut)

\* the first position p >= q where lit stands, or Len(t) + 1 (\Z)
RECURSIVE LazyUntil(_, _, _)
LazyUntil(t, q, lit) ==
    IF q > Len(t) \/ LitAt(t, q, lit) THEN q ELSE LazyUntil(t, q + 1, lit)

\* .*?Finding:\s*<CookieSilently> from p: the position after the finding
\* text of the first place where it all stands, or 0
RECURSIVE FindingAfter(_, _)
FindingAfter(t, p) ==
    IF p > Len(t) THEN 0
    ELSE IF t[p] = FindingKey /\ LitAt(t, SkipWs(t, p + 1), <<CookieSilently>>)
         THEN SkipWs(t, p + 1) + 1
         ELSE FindingAfter(t, p + 1)

\* cookie_patterns[0]: the end of the match that starts at i, or 0
MatchCookie1(t, i) ==
    IF /\ LitAt(t, i, H3 \o <<SP, DateKey>>)
       /\ LitAt(t, SkipWs(t, i + 5), <<VERIFY_DATE>>)
       /\ FindingAfter(t, SkipWs(t, i + 5) + 1) # 0
    THEN LazyUntil(t, FindingAfter(t, SkipWs(t, i + 5) + 1),
                   <<NL>> \o H3 \o <<SP, DateKey>>)
    ELSE 0

\* cookie_patterns[1]: the end of the match that starts at i, or 0.  After
\* the date the greedy \s* must give back exactly the two newlines of the
\* literal "\n\n### Finding:"
MatchCookie2(t, i) ==
    IF LitAt(t, i, H2) /\ LitAt(t, SkipWs(t, i + 2), <<VERIFY_DATE>>)
    THEN LET d == SkipWs(t, i + 2)
             w == SkipWs(t, d + 1)
             lit == <<NL, NL>> \o H3 \o <<SP, FindingKey>>
             r == SkipWs(t, w - 2 + Len(lit))
         IN IF w - 2 >= d + 1 /\ LitAt(t, w - 2, lit) /\ LitAt(t, r, <<CookieBacktick>>)
            THEN LazyUntil(t, r + 1, <<NL, Dashes>>)
            ELSE 0
    ELSE 0

MatchCookie(t, i, pat) == IF pat = 1 THEN MatchCookie1(t, i) ELSE MatchCookie2(t, i)

\* re.finditer(pat, findings) from position i on: the tuples
\* (m.start(), m.end(), pat), start and end being character offsets
RECURSIVE FindIter(_, _, _)
FindIter(t, i, pat) ==
    IF i > Len(t) THEN <<>>
    ELSE IF MatchCookie(t, i, pat) # 0
         THEN <<(<<OffsetOf(t, i), OffsetOf(t, MatchCookie(t, i, pat)), pat>>)>>
              \o FindIter(t, MatchCookie(t, i, pat), pat)
         ELSE FindIter(t, i + 1, pat)

\* tuple order of (start, end, pat); the first pattern string sorts first
TupleLess(a, b) ==
    \/ a[1] < b[1]
    \/ a[1] = b[1] /\ a[2] < b[2]
    \/ a[1] = b[1] /\ a[2] = b[2] /\ a[3] < b[3]

RECURSIVE InsertSorted(_, _)
InsertSorted(m, xs) ==
    IF xs = <<>> THEN <<m>>
    ELSE IF TupleLess(m, xs[1]) THEN <<m>> \o xs
    ELSE <<xs[1]>> \o InsertSorted(m, Tail(xs))

\* list.sort()
RECURSIVE Sort(_)
Sort(xs) == IF xs = <<>> THEN <<>> ELSE InsertSorted(xs[1], Sort(Tail(xs)))

\* lines 71-76
FindMatches(t) == Sort(FindIter(t, 1, 1) \o FindIter(t, 1, 2))

\* findings[:start] + "\n" + findings[end:]
CutSpan(t, m) == TakeChars(t, m[1]) \o <<NL>> \o DropChars(t, m[2])

\* for start, end, _ in reversed(to_remove): apply spans k, k-1, ..., 2
RECURSIVE RemoveDown(_, _, _)
RemoveDown(t, ms, k) ==
    IF k < 2 THEN t ELSE RemoveDown(CutSpan(t, ms[k]), ms, k - 1)

\* the same removals applied first to last (ascending start offsets)
RECURSIVE RemoveUp(_, _, _)
RemoveUp(t, ms, k) ==
    IF k > Len(ms) THEN t ELSE RemoveUp(CutSpan(t, ms[k]), ms, k + 1)

RemoveAscending(t, ms) == IF Len(ms) > 1 THEN RemoveUp(t, ms, 2) ELSE t
\* lines 79-83
RemoveDuplicates(t, ms) == IF Len(ms) > 1 THEN RemoveDown(t, ms, Len(ms)) ELSE t

\* the dedupe step as a whole (lines 66-83)
Dedupe(t) == RemoveDuplicates(t, FindMatches(t))

\* the largest m in a..b with t[m] = "\n", or 0
RECURSIVE LastNl(_, _, _)
LastNl(t, a, b) ==
    IF b < a THEN 0 ELSE IF t[b] = NL THEN b ELSE LastNl(t, a, b - 1)

\* .*?---\s*\n from p: the end of the first "---" whose following
\* whitespace holds a newline (the greedy \s* gives back to its last one)
RECURSIVE TemplateTail(_, _)
TemplateTail(t, p) ==
    IF p > Len(t) THEN 0
    ELSE IF t[p] = Dashes /\ LastNl(t, p + 1, SkipWs(t, p + 1) - 1) # 0
         THEN LastNl(t, p + 1, SkipWs(t, p + 1) - 1) + 1
         ELSE TemplateTail(t, p + 1)

\* (?s)## Template\s*\n.*?---\s*\n : the end of the match at i, or 0
MatchTemplate(t, i) ==
    IF /\ LitAt(t, i, H2 \o <<SP, TemplateWord>>)
       /\ LastNl(t, i + 4, SkipWs(t, i + 4) - 1) # 0
    THEN TemplateTail(t, LastNl(t, i + 4, SkipWs(t, i + 4) - 1) + 1)
    ELSE 0

\* re.sub(pattern, "", findings, count=...) from position i on
RECURSIVE RemoveTemplateFrom(_, _, _)
RemoveTemplateFrom(t, i, count) ==
    IF i > Len(t) THEN <<>>
    ELSE IF count # 0 /\ MatchTemplate(t, i) # 0
         THEN RemoveTemplateFrom(t, MatchTemplate(t, i), count - 1)
         ELSE <<t[i]>> \o RemoveTemplateFrom(t, i + 1, count)

\* line 86
RemoveTemplate(t) == RemoveTemplateFrom(t, 1, 1)

\* line 88: findings.strip() + "\n"
Normalize(t) == Strip(t) \o <<NL>>

\* ================================================================ inputs
SeqsUpTo(S, n) == UNION {[1..k -> S] : k \in 0..n}

RECURSIVE Flatten(_)
Flatten(cs) == IF cs = <<>> THEN <<>> ELSE cs[1] \o Flatten(Tail(cs))

\* the pieces the enumerated state documents are made of
StaleSection == <<LV, NL, Deployed, NL>>     \* "## Last Verified\ndeployed\n"
StateChunks == {<<LV>>, <<NL>>, <<SP>>, <<Deployed>>, <<HH, SP>>, StaleSection}
StateDocs == {Flatten(cs) : cs \in SeqsUpTo(StateChunks, MaxStateChunks)}

HandoffAlphabet == {CommitKey, InvKey, SP, NL, Stale}
HandoffDocs == SeqsUpTo(HandoffAlphabet, MaxHandoffLen)

\* the pieces the enumerated findings logs are made of
DatedFinding ==     \* "\n### Date: 2026-01-24\nFinding: React Native ... header"
    <<NL>> \o H3 \o <<SP, DateKey, SP, VERIFY_DATE, NL, FindingKey, SP, CookieSilently>>
RuledFinding ==     \* "## 2026-01-24\n\n### Finding: React Native ... headers\n---\n"
    H2 \o <<SP, VERIFY_DATE, NL, NL>> \o H3
       \o <<SP, FindingKey, SP, CookieBacktick, NL, Dashes, NL>>
OtherDate == <<NL>> \o H3 \o <<SP, DateKey>>            \* "\n### Date:"
BareFinding == <<FindingKey, SP, CookieSilently>>
TemplateSection ==  \* "## Template\nx\n---\n"
    H2 \o <<SP, TemplateWord, NL, Text, NL, Dashes, NL>>
Chunks == {DatedFinding, RuledFinding, OtherDate, BareFinding, <<NL>>, <<Text>>}
FindingsDocs == {Flatten(cs) : cs \in SeqsUpTo(Chunks, MaxChunks)}

DefaultState == <<Deployed, NL, NL, LV, NL, Deployed, NL>>
DefaultFindings == <<Text, NL>> \o TemplateSection \o DatedFinding \o <<NL>>
DefaultHandoff ==
    <<CommitKey, SP, Stale, NL, PushKey, SP, Stale, NL, InvKey, SP, Stale, NL>>

SmallStateDocs ==
    { DefaultState, <<LV, NL, Deployed>>, <<LV, NL, Deployed, NL, HH, SP, Deployed, NL>> }
\* a log where a dated finding holds a ruled one inside its span, after an
\* earlier dated finding: the dated finding, "## 2026-01-24", the dated
\* finding with a ruled one in it, "\n### Date:", a bare finding,
\* "### Finding: React Native ... headers"
NestedFindingsLog ==
    DatedFinding \o H2 \o <<SP, VERIFY_DATE>>
        \o DatedFinding \o RuledFinding
        \o OtherDate \o BareFinding
        \o H3 \o <<SP, FindingKey, SP, CookieBacktick>>
SmallFindingsDocs ==
    { DefaultFindings,
      <<Text, NL>> \o TemplateSection \o TemplateSection,
      <<Text>> \o DatedFinding \o <<NL>> \o RuledFinding,
      NestedFindingsLog }
SmallHandoffDocs ==
    { DefaultHandoff, <<CommitKey, NL, PushKey, SP, Stale, NL, InvKey, NL, InvKey, NL>> }

FileTable(s, f, h) ==
    [n \in Files |-> CASE n = STATE_FILE -> s
                       [] n = FINDINGS_FILE -> f
                       [] n = HANDOFF_FILE -> h
                       [] OTHER -> <<>>]

\* the state when the script is first invoked: the files hold texts of S, F
\* and H, and E says which of them exist (a missing file has no text)
InitWith(S, F, H, E) ==
    /\ exists \in E
    /\ content \in {FileTable(s, f, h) : s \in S, f \in F, h \in H}
    /\ \A n \in Files : ~exists[n] => content[n] = <<>>
    /\ pc = "read_state"
    /\ run = 1
    /\ state = <<>>
    /\ findings = <<>>
    /\ handoff = <<>>
    /\ matches = <<>>
    /\ prev = <<>>
    /\ written = {}
    /\ atStart = content

\* all three documents exist; docs/INVARIANTS.md may or may not
DocsExist == {e \in [Files -> BOOLEAN] :
                 e[STATE_FILE] /\ e[FINDINGS_FILE] /\ e[HANDOFF_FILE]}

InitRun ==
    InitWith(SmallStateDocs \cup {<<>>}, SmallFindingsDocs \cup {<<>>},
             SmallHandoffDocs \cup {<<>>}, [Files -> BOOLEAN])
InitState ==
    \/ InitWith(StateDocs, {DefaultFindings}, {DefaultHandoff}, {[n \in Files |-> TRUE]})
    \/ InitRun
InitFindings ==
    \/ InitWith({DefaultState}, FindingsDocs, {DefaultHandoff}, {[n \in Files |-> TRUE]})
    \/ InitRun
InitHandoff ==
    \/ InitWith({DefaultState}, {DefaultFindings}, HandoffDocs, DocsExist)
    \/ InitRun
Init == InitRun

\* =============================================================== actions
\* line 16, the file is there
ReadState ==
    /\ pc = "read_state"
    /\ exists[STATE_FILE]
    /\ state' = content[STATE_FILE]
    /\ pc' = "upsert"
    /\ UNCHANGED <<exists, content, run, findings, handoff, matches, prev,
                   written, atStart>>

\* line 16 as it would be with the error caught and the stage skipped
ReadStateSkipped ==
    /\ pc = "read_state"
    /\ ~exists[STATE_FILE]
    /\ pc' = "read_findings"
    /\ UNCHANGED <<exists, content, run, state, findings, handoff, matches,
                   prev, written, atStart>>

\* line 16, the file is missing: read_text raises and nothing catches it
ReadStateFails ==
    /\ pc = "read_state"
    /\ ~exists[STATE_FILE]
    /\ pc' = "crashed"
    /\ UNCHANGED <<exists, content, run, state, findings, handoff, matches,
                   prev, written, atStart>>

\* line 32
UpsertLastVerified ==
    /\ pc = "upsert"
    /\ prev' = state
    /\ state' = upsert_last_verified(state)
    /\ pc' = "replace_deployed"
    /\ UNCHANGED <<exists, content, run, findings, handoff, matches, written,
                   atStart>>

\* line 35
NormalizeDeployed ==
    /\ pc = "replace_deployed"
    /\ prev' = state
    /\ state' = ReplaceDeployed(state)
    /\ pc' = "write_state"
    /\ UNCHANGED <<exists, content, run, findings, handoff, matches, written,
                   atStart>>

\* line 37
WriteState ==
    /\ pc = "write_state"
    /\ content' = [content EXCEPT ![STATE_FILE] = state]
    /\ written' = written \cup {STATE_FILE}
    /\ pc' = "read_findings"
    /\ UNCHANGED <<exists, run, state, findings, handoff, matches, prev,
                   atStart>>

\* line 45, the file is there
ReadFindings ==
    /\ pc = "read_findings"
    /\ exists[FINDINGS_FILE]
    /\ findings' = content[FINDINGS_FILE]
    /\ pc' = "insert_auth"
    /\ UNCHANGED <<exists, content, run, state, handoff, matches, prev,
                   written, atStart>>

\* line 45, the file is missing
ReadFindingsFails ==
    /\ pc = "read_findings"
    /\ ~exists[FINDINGS_FILE]
    /\ pc' = "crashed"
    /\ UNCHANGED <<exists, content, run, state, findings, handoff, matches,
                   prev, written, atStart>>

\* lines 55-63
InsertAuthContract ==
    /\ pc = "insert_auth"
    /\ prev' = findings
    /\ findings' = InsertAuth(findings)
    /\ pc' = "find_matches"
    /\ UNCHANGED <<exists, content, run, state, handoff, matches, written,
                   atStart>>

\* lines 71-76
CollectMatches ==
    /\ pc = "find_matches"
    /\ matches' = FindMatches(findings)
    /\ pc' = "remove_duplicates"
    /\ UNCHANGED <<exists, content, run, state, findings, handoff, prev,
                   written, atStart>>

\* lines 79-83
RemoveDuplicateFindings ==
    /\ pc = "remove_duplicates"
    /\ prev' = findings
    /\ findings' = RemoveDuplicates(findings, matches)
    /\ pc' = "remove_template"
    /\ UNCHANGED <<exists, content, run, state, handoff, matches, written,
                   atStart>>

\* line 86
RemoveTemplateSection ==
    /\ pc = "remove_template"
    /\ prev' = findings
    /\ findings' = RemoveTemplate(findings)
    /\ pc' = "write_findings"
    /\ UNCHANGED <<exists, content, run, state, handoff, matches, written,
                   atStart>>

\* line 88
WriteFindings ==
    /\ pc = "write_findings"
    /\ content' = [content EXCEPT ![FINDINGS_FILE] = Normalize(findings)]
    /\ written' = written \cup {FINDINGS_FILE}
    /\ pc' = "check_handoff"
    /\ UNCHANGED <<exists, run, state, findings, handoff, matches, prev,
                   atStart>>

\* lines 94-95, the file exists
ReadHandoff ==
    /\ pc = "check_handoff"
    /\ exists[HANDOFF_FILE]
    /\ handoff' = content[HANDOFF_FILE]
    /\ pc' = "patch_commit"
    /\ UNCHANGED <<exists, content, run, state, findings, matches, prev,
                   written, atStart>>

\* line 94, the file does not exist: the stage is skipped
SkipHandoff ==
    /\ pc = "check_handoff"
    /\ ~exists[HANDOFF_FILE]
    /\ pc' = "done"
    /\ UNCHANGED <<exists, content, run, state, findings, handoff, matches,
                   prev, written, atStart>>

\* line 98
PatchCommitField ==
    /\ pc = "patch_commit"
    /\ prev' = handoff
    /\ handoff' = PatchCommit(handoff)
    /\ pc' = "patch_push"
    /\ UNCHANGED <<exists, content, run, state, findings, matches, written,
                   atStart>>

\* line 99
PatchPushField ==
    /\ pc = "patch_push"
    /\ prev' = handoff
    /\ handoff' = PatchPush(handoff)
    /\ pc' = "delete_invariants"
    /\ UNCHANGED <<exists, content, run, state, findings, matches, written,
                   atStart>>

\* lines 102-103
DeleteInvariantsLine ==
    /\ pc = "delete_invariants"
    /\ prev' = handoff
    /\ handoff' = IF ~exists[INVARIANTS_FILE] THEN DeleteInvLines(handoff)
                  ELSE handoff
    /\ pc' = "write_handoff"
    /\ UNCHANGED <<exists, content, run, state, findings, matches, written,
                   atStart>>

\* line 105
WriteHandoff ==
    /\ pc = "write_handoff"
    /\ content' = [content EXCEPT ![HANDOFF_FILE] = handoff]
    /\ written' = written \cup {HANDOFF_FILE}
    /\ pc' = "done"
    /\ UNCHANGED <<exists, run, state, findings, handoff, matches, prev,
                   atStart>>

\* the script is invoked again on the files the last invocation left
Rerun ==
    /\ pc \in {"done", "crashed"}
    /\ run < MaxRuns
    /\ run' = run + 1
    /\ atStart' = content
    /\ pc' = "read_state"
    /\ state' = <<>>
    /\ findings' = <<>>
    /\ handoff' = <<>>
    /\ matches' = <<>>
    /\ prev' = <<>>
    /\ written' = {}
    /\ UNCHANGED <<exists, content>>

Next ==
    \/ ReadState \/ ReadStateFails \/ UpsertLastVerified \/ NormalizeDeployed
    \/ WriteState
    \/ ReadFindings \/ ReadFindingsFails \/ InsertAuthContract
    \/ CollectMatches \/ RemoveDuplicateFindings \/ RemoveTemplateSection
    \/ WriteFindings
    \/ ReadHandoff \/ SkipHandoff \/ PatchCommitField \/ PatchPushField
    \/ DeleteInvariantsLine \/ WriteHandoff
    \/ Rerun

Spec == Init /\ [][Next]_vars
SpecState == InitState /\ [][Next]_vars
SpecFindings == InitFindings /\ [][Next]_vars
SpecHandoff == InitHandoff /\ [][Next]_vars

\* ============================================================ properties
IsPrefix(a, b) == Len(a) <= Len(b) /\ Slice(b, 1, Len(a)) = a
IsSuffix(a, b) == Len(a) <= Len(b) /\ From(b, Len(b) - Len(a) + 1) = a
\* the text a token sequence spells
RECURSIVE TextOf(_)
TextOf(t) == IF t = <<>> THEN "" ELSE t[1] \o TextOf(Tail(t))

\* t[a:b] for character offsets a and b
CharsBetween(t, a, b) == TakeChars(DropChars(t, a), b - a)
SpanText(t, m) == CharsBetween(t, m[1], m[2])

\* spans sorted by start that do not run into each other
NonOverlapping(ms) == \A k \in 1..(Len(ms) - 1) : ms[k][2] <= ms[k + 1][1]

\* t with the spans k.. of ms each replaced by repl, the text between them
\* kept; a is the position the text is kept from
RECURSIVE KeepOutside(_, _, _, _, _)
KeepOutside(t, ms, k, a, repl) ==
    IF k > Len(ms) THEN From(t, a)
    ELSE Slice(t, a, ms[k][1] - 1) \o repl \o KeepOutside(t, ms, k + 1, ms[k][2], repl)

\* the same for spans of character offsets; a is the offset the text is
\* kept from
RECURSIVE KeepOutsideSpans(_, _, _, _, _)
KeepOutsideSpans(t, ms, k, a, repl) ==
    IF k > Len(ms) THEN DropChars(t, a)
    ELSE CharsBetween(t, a, ms[k][1]) \o repl
            \o KeepOutsideSpans(t, ms, k + 1, ms[k][2], repl)

\* the lines of t, each with its terminator (the last one may have none)
RECURSIVE LinesOf(_)
LinesOf(t) ==
    IF t = <<>> THEN <<>>
    ELSE IF LineEnd(t, 1) = 0 THEN <<t>>
    ELSE <<Slice(t, 1, LineEnd(t, 1) - 1)>> \o LinesOf(From(t, LineEnd(t, 1)))

StartsWith(line, key) == line # <<>> /\ line[1] = key
Terminated(line) == line # <<>> /\ line[Len(line)] = NL
\* the indexes of the lines that start with key
KeyLines(ls, key) == {k \in 1..Len(ls) : StartsWith(ls[k], key)}
Min(S) == CHOOSE x \in S : \A y \in S : x <= y
\* the lines of ls whose index is not in drop, joined
RECURSIVE JoinWithout(_, _, _)
JoinWithout(ls, drop, k) ==
    IF k > Len(ls) THEN <<>>
    ELSE (IF k \in drop THEN <<>> ELSE ls[k]) \o JoinWithout(ls, drop, k + 1)

AfterUpsert == pc = "replace_deployed"
AfterDedupe == pc = "remove_template"
AfterCommitPatch == pc = "patch_push"
AfterInvDelete == pc = "write_handoff"
RunEnded == pc \in {"done", "crashed"}
Documents == {STATE_FILE, FINDINGS_FILE, HANDOFF_FILE}

\* ---- C1: upsert_last_verified is idempotent: applying it to its own
\* output gives that output again, for every input text
C1_UpsertIdempotent ==
    AfterUpsert => upsert_last_verified(state) = state

\* ---- C2: when the cookie patterns match N >= 1 spans, after the
\* duplicate removal exactly one span is matched and its text equals the
\* text of the earliest span of the text before
C2_OneSpanEqualToEarliest ==
    (AfterDedupe /\ Len(matches) >= 1) =>
        LET after == FindMatches(findings)
        IN /\ Len(after) = 1
           /\ TextOf(SpanText(findings, after[1])) = TextOf(SpanText(prev, matches[1]))

HeaderStarts(t) ==
    {q \in 1..Len(t) : AtLineStart(t, q) /\ (t[q] = LV \/ LitAt(t, q, <<HH, SP>>))}
\* the Last Verified header lines: the header, blanks at most, a newline
LVLines(t) ==
    {q \in HeaderStarts(t) : t[q] = LV /\ LitAt(t, EndOfLine(t, q + 1), <<NL>>)
                             /\ \A k \in (q + 1)..(EndOfLine(t, q + 1) - 1) : t[k] = SP}

\* ---- C4: in a document (ending in a newline) with one Last Verified
\* section that further "## " sections follow, only the text from that header to the next header line is
\* replaced: the text before the header and the text from the next header
\* line on are the same in the result
C4_LaterSectionsUntouched ==
    (AfterUpsert /\ Cardinality(LVLines(prev)) = 1
                 /\ Cardinality({q \in 1..Len(prev) : prev[q] = LV}) = 1
                 /\ prev[Len(prev)] = NL) =>
        LET i == Min(LVLines(prev))
            later == {q \in HeaderStarts(prev) : q > i}
        IN later # {} =>
              /\ IsPrefix(Slice(prev, 1, i - 1), state)
              /\ IsSuffix(From(prev, Min(later)), state)

\* ---- C5: a second invocation leaves every document as the first one
\* wrote it
C5_SecondRunChangesNothing ==
    (run = 2 /\ pc = "done" /\ \A n \in Documents : exists[n]) =>
        \A n \in Documents : TextOf(content[n]) = TextOf(atStart[n])

\* ---- C6: the Commit patch rewrites only the first line that starts with
\* "Commit:", to the canonical value; every other line is unchanged and the
\* number of lines is the same
C6_CommitPatchPrecise ==
    AfterCommitPatch =>
        LET before == LinesOf(prev)
            after == LinesOf(handoff)
            hits == KeyLines(before, CommitKey)
        IN /\ Len(after) = Len(before)
           /\ \A k \in 1..Len(before) :
                IF hits # {} /\ k = Min(hits)
                THEN after[k] = <<CommitKey, SP, COMMIT_HASH>>
                                    \o (IF Terminated(before[k]) THEN <<NL>> ELSE <<>>)
                ELSE after[k] = before[k]

\* ---- C7: the duplicate removal is idempotent: applied to its own output
\* it changes nothing
C7_DedupeIdempotent ==
    AfterDedupe => TextOf(Dedupe(findings)) = TextOf(findings)

C9_OtherDocumentsStillWritten ==
    RunEnded => \A n \in Documents : exists[n] => n \in written

\* ---- C9 as amended: a missing STATE_OF_THE_APP or FINDINGS_LOG ends the
\* whole invocation where it is read: nothing after it is written (without
\* the first nothing at all, without the second only the first); a missing
\* HANDOFF_PACKET or INVARIANTS file never ends it
C9_MissingDocumentEndsRun ==
    /\ pc = "crashed" =>
          \/ ~exists[STATE_FILE] /\ written = {}
          \/ exists[STATE_FILE] /\ ~exists[FINDINGS_FILE] /\ written = {STATE_FILE}
    /\ pc = "done" =>
          /\ exists[STATE_FILE] /\ exists[FINDINGS_FILE]
          /\ written = {n \in Documents : exists[n]}
    /\ \A n \in Files \ written : content[n] = atStart[n]

C9_Witness ==
    /\ pc = "crashed"
    /\ ~exists[STATE_FILE]
    /\ exists[FINDINGS_FILE]
    /\ exists[HANDOFF_FILE]

\* ---- C10: when the matched spans do not overlap, the duplicate removal
\* yields the text before it with every span but the earliest replaced by
\* one newline, the earliest span and the text outside the spans kept in
\* place; with fewer than two spans the text is unchanged
C10_RemovalKeepsTheRest ==
    (AfterDedupe /\ NonOverlapping(matches)) =>
        findings = IF Len(matches) < 2 THEN prev
                   ELSE KeepOutsideSpans(prev, matches, 2, 0, <<NL>>)

C10_Witness ==
    /\ AfterDedupe
    /\ Len(matches) >= 3
    /\ NonOverlapping(matches)
    /\ DropChars(prev, matches[Len(matches)][2]) # <<>>

====
